---- MODULE Spec2Model ----
(***************************************************************************)
(* Room Scanner - Lublin (src/olx_room_monitor.py).                        *)
(*                                                                         *)
(* The offer store (DatabaseManager), the caching geocoder                 *)
(* (ImprovedGeocoder) and the monitoring pass (ImprovedOLXMonitor) as a    *)
(* state machine.  Three specifications share the variables:               *)
(*   SpecStore  save_offer / mark_inactive_offers called with any          *)
(*              arguments, in any order;                                   *)
(*   SpecGeo    geocode called with any arguments, the process may be      *)
(*              killed and restarted at any step;                          *)
(*   Spec       run_monitoring, pass after pass.                           *)
(***************************************************************************)
EXTENDS Integers, Sequences, FiniteSets, TLC

VARIABLES
    db,        \* table offers: offer_id -> row
    ret,       \* the last DatabaseManager call that returned: its arguments and result
    firstIns,  \* history: offer_id -> first_seen of the offer that was INSERTed
    cache,     \* ImprovedGeocoder.cache, the dict in memory: key -> point
    disk,      \* the file data/geocoding_cache.json
    geo,       \* the geocode call in progress: its position and locals
    prev,      \* history: the geocode call that returned last in this process
    netret,    \* history: key -> the point a geocode call returned from the network
    mon,       \* run_monitoring: its position and locals
    first,     \* history: the first in-box result the service gave the geocode call
    passes,    \* the passes started so far; the timestamp of a pass is its number
    ext        \* the address extraction of _process_offer_CONTENT: its texts and result

vars == <<db, ret, firstIns, cache, disk, geo, prev, netret, mon, first, passes, ext>>

(***************************************************************************)
(* Bounds of the model.                                                    *)
(***************************************************************************)
MaxTime == 2
MaxResults == 2
MaxPasses == 2

OfferIds == {"A", "B"}         \* offer_id: the ID[A-Za-z0-9]+ part of the offer's link
Times == 1..MaxTime            \* timestamps (datetime.now().isoformat()), ordered

(***************************************************************************)
(* Texts are sequences of characters.  None is Python's None where a text  *)
(* is optional.                                                            *)
(***************************************************************************)
None == <<"None">>

\* hashlib.md5(f"{title}{price}{description}"): the digest is taken to be
\* injective on the formatted string, so it is modelled by that string.  The
\* f-string renders a missing description as the text None.
content_hash(title, price, description) == title \o price \o description

(***************************************************************************)
(* The content of an offer page (title, price, description) and the rest   *)
(* of a RoomOffer (url, address, coordinates).  The first two contents     *)
(* differ in title and price and have the same f"{title}{price}{desc}".    *)
(***************************************************************************)
Contents ==
    { [title |-> <<"a", "1">>, price |-> <<"2">>, price_numeric |-> 2,
       description |-> <<"c">>],
      [title |-> <<"a">>, price |-> <<"1", "2">>, price_numeric |-> 12,
       description |-> <<"c">>],
      [title |-> <<"b">>, price |-> <<"3">>, price_numeric |-> 3,
       description |-> <<"d">>] }

Places ==
    { [url |-> "u1", street_name |-> "Narutowicza", building_number |-> "14",
       apartment_number |-> "NULL", full_address |-> "ul. Narutowicza 14, Lublin",
       latitude |-> 5115, longitude |-> 2235],
      [url |-> "u2", street_name |-> "Krasnicka", building_number |-> "73a",
       apartment_number |-> "12", full_address |-> "ul. Krasnicka 73a/12, Lublin",
       latitude |-> 5135, longitude |-> 2275] }

\* dataclass RoomOffer, as _process_offer_CONTENT builds it: first_seen and
\* last_seen are the pass timestamp, is_active is True (days_active is derived
\* at read time and not stored)
RoomOffer(id, c, p, timestamp) ==
    [offer_id |-> id, title |-> c.title, price |-> c.price,
     price_numeric |-> c.price_numeric, url |-> p.url,
     description |-> c.description, street_name |-> p.street_name,
     building_number |-> p.building_number,
     apartment_number |-> p.apartment_number, full_address |-> p.full_address,
     latitude |-> p.latitude, longitude |-> p.longitude,
     first_seen |-> timestamp, last_seen |-> timestamp, is_active |-> TRUE,
     hash |-> content_hash(c.title, c.price, c.description)]

RoomOffers ==
    { RoomOffer(id, c, p, timestamp) :
        id \in OfferIds, c \in Contents, p \in Places, timestamp \in Times }

(***************************************************************************)
(* DatabaseManager                                                         *)
(***************************************************************************)
EmptyTable == [id \in {} |-> 0]

\* INSERT INTO offers VALUES (...): every column from the offer, is_active = 1
InsertRow(offer) == [offer EXCEPT !.is_active = TRUE]

\* (faulty variants of UpdateRow: the UPDATE also sets first_seen; the UPDATE
\* replaces the whole row but first_seen)
UpdateRow_first_seen(row, offer) ==
    [row EXCEPT !.title = offer.title, !.price = offer.price,
                !.price_numeric = offer.price_numeric,
                !.description = offer.description,
                !.first_seen = offer.first_seen,
                !.last_seen = offer.last_seen, !.is_active = TRUE,
                !.hash = offer.hash]

UpdateRow_replace(row, offer) ==
    [offer EXCEPT !.first_seen = row.first_seen, !.is_active = TRUE]

\* UPDATE offers SET title, price, price_numeric, description, last_seen,
\*                   is_active=1, hash
UpdateRow(row, offer) ==
    [row EXCEPT !.title = offer.title, !.price = offer.price,
                !.price_numeric = offer.price_numeric,
                !.description = offer.description,
                !.last_seen = offer.last_seen, !.is_active = TRUE,
                !.hash = offer.hash]

\* (faulty variant of TouchRow: the UPDATE sets first_seen, not last_seen)
TouchRow_first_seen(row, offer) == [row EXCEPT !.first_seen = offer.last_seen]

\* UPDATE offers SET last_seen
TouchRow(row, offer) == [row EXCEPT !.last_seen = offer.last_seen]

\* (faulty variant of save_offer: the reappearance of an inactive offer is not an update)
save_offer_hash_only(table, offer) ==
    LET id == offer.offer_id IN
    IF id \in DOMAIN table
    THEN IF table[id].hash # offer.hash
         THEN [table |-> [table EXCEPT ![id] = UpdateRow(table[id], offer)],
               result |-> "updated"]
         ELSE [table |-> [table EXCEPT ![id] = TouchRow(table[id], offer)],
               result |-> "unchanged"]
    ELSE [table |-> (id :> InsertRow(offer)) @@ table, result |-> "new"]

\* save_offer: the table after the call and the returned classification
save_offer(table, offer) ==
    LET id == offer.offer_id IN
    IF id \in DOMAIN table
    THEN IF table[id].hash # offer.hash \/ ~table[id].is_active
         THEN [table |-> [table EXCEPT ![id] = UpdateRow(table[id], offer)],
               result |-> "updated"]
         ELSE [table |-> [table EXCEPT ![id] = TouchRow(table[id], offer)],
               result |-> "unchanged"]
    ELSE [table |-> (id :> InsertRow(offer)) @@ table, result |-> "new"]

\* (faulty variant of mark_inactive_offers: no else branch for an empty set)
mark_inactive_offers_nonempty(table, active_ids, timestamp) ==
    [id \in DOMAIN table |->
        IF active_ids # {} /\ id \notin active_ids /\ table[id].is_active
        THEN [table[id] EXCEPT !.is_active = FALSE, !.last_seen = timestamp]
        ELSE table[id]]

\* (faulty variant of mark_inactive_offers: the rows are deleted, not updated)
mark_inactive_offers_delete(table, active_ids, timestamp) ==
    [id \in {i \in DOMAIN table : i \in active_ids \/ ~table[i].is_active} |->
        table[id]]

\* (faulty variant of mark_inactive_offers: the WHERE clause lacks "AND is_active=1")
mark_inactive_offers_all(table, active_ids, timestamp) ==
    [id \in DOMAIN table |->
        IF id \notin active_ids
        THEN [table[id] EXCEPT !.is_active = FALSE, !.last_seen = timestamp]
        ELSE table[id]]

\* mark_inactive_offers: both branches (active_ids empty or not) of the UPDATE
mark_inactive_offers(table, active_ids, timestamp) ==
    IF active_ids # {}
    THEN [id \in DOMAIN table |->
            IF id \notin active_ids /\ table[id].is_active
            THEN [table[id] EXCEPT !.is_active = FALSE, !.last_seen = timestamp]
            ELSE table[id]]
    ELSE [id \in DOMAIN table |->
            IF table[id].is_active
            THEN [table[id] EXCEPT !.is_active = FALSE, !.last_seen = timestamp]
            ELSE table[id]]

\* get_all_offers: days_active = (last_seen - first_seen).days of a row
days_active(row) == row.last_seen - row.first_seen

NoCall == [op |-> "none"]

(***************************************************************************)
(* ImprovedGeocoder                                                        *)
(*                                                                         *)
(* Coordinates are in hundredths of a degree.  An Optional value is the    *)
(* empty sequence (None) or a sequence of one element.                     *)
(***************************************************************************)
LUBLIN_BOUNDS ==
    [min_lat |-> 5115, max_lat |-> 5135, min_lon |-> 2235, max_lon |-> 2275]

Point(lat, lon) == [lat |-> lat, lon |-> lon]

\* what the service may answer with: the two corners of the box, a point south
\* of it and a point east of it
CandPoints ==
    { Point(5115, 2235), Point(5135, 2275), Point(5114, 2255), Point(5125, 2276) }

\* session.get + raise_for_status + response.json(): an exception, or a list of
\* results ('limit': 3 asks for three at most; the answers of the model have
\* MaxResults at most)
Responses ==
    { [ok |-> FALSE, results |-> <<>>] } \cup
    { [ok |-> TRUE, results |-> r] :
        r \in UNION { [1..n -> CandPoints] : n \in 0..MaxResults } }

\* the arguments geocode is called with when it is called directly
GeoArgs ==
    { <<"Narutowicza", "14">>, <<"NARUTOWICZA", "14">>, <<"Narutowicza", "73a">> }

\* str.lower()
lower(street) ==
    CASE street = "Narutowicza" -> "narutowicza"
      [] street = "NARUTOWICZA" -> "narutowicza"
      [] street = "Krasnicka" -> "krasnicka"
      [] OTHER -> street

\* f"{street.lower()}_{number}_lublin"
cache_key(street, number) == <<lower(street), number, "lublin">>

\* the six queries, in the order they are tried
queries(street, number) ==
    << <<"", street, number, ", Lublin, Polska">>,
       <<"ul. ", street, number, ", Lublin, Poland">>,
       <<"ulica ", street, number, ", Lublin, Polska">>,
       <<"al. ", street, number, ", Lublin, Poland">>,
       <<"aleja ", street, number, ", Lublin, Polska">>,
       <<"", street, "", ", Lublin, Polska">> >>

\* (faulty variant of InLublin: the longitude is not checked)
InLublin_lat(lat, lon) ==
    LUBLIN_BOUNDS.min_lat <= lat /\ lat <= LUBLIN_BOUNDS.max_lat

\* LUBLIN_BOUNDS['min_lat'] <= lat <= ... and ... <= lon <= LUBLIN_BOUNDS['max_lon']
InLublin(lat, lon) ==
    /\ LUBLIN_BOUNDS.min_lat <= lat /\ lat <= LUBLIN_BOUNDS.max_lat
    /\ LUBLIN_BOUNDS.min_lon <= lon /\ lon <= LUBLIN_BOUNDS.max_lon

\* for result in results: the first result, from position k on, in the box
RECURSIVE scan_results(_, _)
scan_results(results, k) ==
    IF k > Len(results) THEN <<>>
    ELSE IF InLublin(results[k].lat, results[k].lon) THEN <<results[k]>>
    ELSE scan_results(results, k + 1)

EmptyCache == [k \in {} |-> Point(0, 0)]

\* (faulty variant of cache_store: the accepted point is not put into the dict)
cache_store_skip(c, key, pt) == c

\* self.cache[cache_key] = [lat, lon]
cache_store(c, key, pt) == (key :> pt) @@ c

\* the cache file: absent, the JSON of a dict, or cut short while being written
NoFile == [state |-> "absent", data |-> EmptyCache]
TornFile == [state |-> "torn", data |-> EmptyCache]
JsonFile(c) == [state |-> "json", data |-> c]

\* _load_cache: {} when the file is absent or json.load raises
load_cache(file) == IF file.state = "json" THEN file.data ELSE EmptyCache

\* the locals of a geocode call; old is history: what the cache file held when
\* _save_cache opened it for writing; entry is history: the cache and the file
\* when the call was made
GeoIdle ==
    [pc |-> "idle", street |-> "", number |-> "", qi |-> 0, sent |-> <<>>,
     cand |-> <<>>, ret |-> <<>>, old |-> EmptyCache, entry |-> <<>>]

\* the first result of a response that lies in the box, by its position (the
\* history variable first holds it for the earliest query that had one)
FirstInBox(resp) ==
    IF resp.ok /\ \E k \in 1..Len(resp.results) :
                     /\ resp.results[k].lat \in LUBLIN_BOUNDS.min_lat..LUBLIN_BOUNDS.max_lat
                     /\ resp.results[k].lon \in LUBLIN_BOUNDS.min_lon..LUBLIN_BOUNDS.max_lon
    THEN LET k == CHOOSE k \in 1..Len(resp.results) :
                    /\ resp.results[k].lat \in LUBLIN_BOUNDS.min_lat..LUBLIN_BOUNDS.max_lat
                    /\ resp.results[k].lon \in LUBLIN_BOUNDS.min_lon..LUBLIN_BOUNDS.max_lon
                    /\ \A j \in 1..(k - 1) :
                          ~ ( /\ resp.results[j].lat \in LUBLIN_BOUNDS.min_lat..LUBLIN_BOUNDS.max_lat
                              /\ resp.results[j].lon \in LUBLIN_BOUNDS.min_lon..LUBLIN_BOUNDS.max_lon )
         IN <<resp.results[k]>>
    ELSE <<>>

\* geocode, from its entry to the first query or to the return of a cached point
GeocodeEnter(street, number) ==
    LET key == cache_key(street, number) IN
    /\ geo.pc = "idle"
    /\ IF key \in DOMAIN cache
       THEN /\ geo' = [GeoIdle EXCEPT !.pc = "ret", !.street = street,
                                      !.number = number, !.ret = <<cache[key]>>,
                                      !.entry = <<[cache |-> cache, disk |-> disk]>>]
       ELSE /\ geo' = [GeoIdle EXCEPT !.pc = "query", !.street = street,
                                      !.number = number, !.qi = 1,
                                      !.entry = <<[cache |-> cache, disk |-> disk]>>]
    /\ UNCHANGED <<cache, disk, netret>>

\* time.sleep(1.2), then the next query, or return None after the last one
NextQuery(g) ==
    IF g.qi < Len(queries(g.street, g.number))
    THEN [g EXCEPT !.pc = "query", !.qi = g.qi + 1, !.cand = <<>>,
                   !.old = EmptyCache]
    ELSE [g EXCEPT !.pc = "ret", !.cand = <<>>, !.ret = <<>>, !.old = EmptyCache]

\* one turn of "for query in queries": the request, the scan of its results, the
\* dict entry and the start of _save_cache (makedirs, open(cache_file, 'w'))
GeocodeQuery(resp) ==
    /\ geo.pc = "query"
    /\ LET g == [geo EXCEPT
                    !.sent = Append(geo.sent, queries(geo.street, geo.number)[geo.qi])]
            hit == IF resp.ok THEN scan_results(resp.results, 1) ELSE <<>>
        IN  \/ /\ hit = <<>>                \* exception, no result, none in the box
               /\ geo' = NextQuery(g)
               /\ UNCHANGED <<cache, disk>>
            \/ /\ hit # <<>>                \* makedirs or open raises: except
               /\ cache' = cache_store(cache, cache_key(geo.street, geo.number), hit[1])
               /\ geo' = NextQuery(g)
               /\ UNCHANGED disk
            \/ /\ hit # <<>>                \* the file is open and truncated
               /\ cache' = cache_store(cache, cache_key(geo.street, geo.number), hit[1])
               /\ disk' = TornFile
               /\ geo' = [g EXCEPT !.pc = "write", !.cand = hit,
                                    !.old = load_cache(disk)]
    /\ UNCHANGED netret

\* json.dump and the close of the file, then return (lat, lon); or the write
\* raises, which the except of the query loop catches
GeocodeWrite ==
    /\ geo.pc = "write"
    /\ \/ /\ disk' = JsonFile(cache)
          /\ geo' = [geo EXCEPT !.pc = "ret", !.ret = geo.cand, !.old = EmptyCache]
          /\ netret' = (cache_key(geo.street, geo.number) :> geo.cand[1]) @@ netret
       \/ /\ geo' = NextQuery(geo)
          /\ UNCHANGED <<disk, netret>>
    /\ UNCHANGED cache

(***************************************************************************)
(* SpecGeo: geocode called directly, one call after the other; the process *)
(* may be killed at any step and started again (ImprovedGeocoder.__init__  *)
(* loads the file).                                                        *)
(***************************************************************************)
NoPrev == <<>>

Geocode ==
    /\ \E a \in GeoArgs : GeocodeEnter(a[1], a[2])
    /\ first' = <<>>
    /\ UNCHANGED <<db, ret, firstIns, prev, mon, passes, ext>>

Query ==
    \E resp \in Responses :
        /\ GeocodeQuery(resp)
        /\ first' = IF first = <<>> /\ FirstInBox(resp) # <<>>
                    THEN <<[qi |-> geo.qi, pt |-> FirstInBox(resp)[1]]>>
                    ELSE first
        /\ UNCHANGED <<db, ret, firstIns, prev, mon, passes, ext>>

Write == GeocodeWrite /\ UNCHANGED <<db, ret, firstIns, prev, mon, first, passes, ext>>

Return ==
    /\ geo.pc = "ret"
    /\ prev' = <<[street |-> geo.street, number |-> geo.number,
                  net |-> geo.sent # <<>>, ret |-> geo.ret]>>
    /\ geo' = GeoIdle
    /\ first' = <<>>
    /\ UNCHANGED <<db, ret, firstIns, cache, disk, netret, mon, passes, ext>>

Restart ==
    /\ cache' = load_cache(disk)
    /\ geo' = GeoIdle
    /\ prev' = NoPrev
    /\ first' = <<>>
    /\ UNCHANGED <<db, ret, firstIns, disk, netret, mon, passes, ext>>

\* no page read yet.  parts is history: the pieces the title was put together from
ExtIdle ==
    [pc |-> "idle", parts |-> <<>>, title |-> <<>>, description |-> <<>>,
     full_text |-> <<>>, address_info |-> <<>>]

\* the locals of run_monitoring.  History: log is the outcome of each offer
\* processed so far, in order; marks counts the calls of mark_inactive_offers;
\* row is what save_stats inserted into monitoring_stats.
MonIdle ==
    [pc |-> "idle", timestamp |-> 0, all_offers |-> <<>>, i |-> 0,
     processed_offers |-> 0, stats |-> [new |-> 0, updated |-> 0, unchanged |-> 0],
     active_ids |-> {}, page |-> <<>>, out |-> <<>>,
     log |-> <<>>, marks |-> 0, row |-> <<>>]

GeoInit ==
    /\ db = EmptyTable /\ ret = NoCall /\ firstIns = EmptyTable
    /\ disk = NoFile
    /\ cache = load_cache(disk)
    /\ geo = GeoIdle
    /\ prev = NoPrev
    /\ netret = EmptyCache
    /\ mon = MonIdle
    /\ first = <<>>
    /\ passes = 0
    /\ ext = ExtIdle

GeoNext == Geocode \/ Query \/ Write \/ Return \/ Restart

SpecGeo == GeoInit /\ [][GeoNext]_vars

(***************************************************************************)
(* SpecStore: the store's operations called directly.                      *)
(***************************************************************************)

StoreInit == GeoInit

SaveOffer ==
    \E offer \in RoomOffers :
        LET r == save_offer(db, offer) IN
        /\ db' = r.table
        /\ ret' = [op |-> "save_offer", offer |-> offer, result |-> r.result]
        /\ firstIns' = IF r.result = "new"
                       THEN (offer.offer_id :> offer.first_seen) @@ firstIns
                       ELSE firstIns
        /\ UNCHANGED <<cache, disk, geo, prev, netret, mon, first, passes, ext>>

MarkInactive ==
    \E active_ids \in SUBSET OfferIds, timestamp \in Times :
        /\ db' = mark_inactive_offers(db, active_ids, timestamp)
        /\ ret' = [op |-> "mark_inactive_offers", active_ids |-> active_ids,
                   timestamp |-> timestamp]
        /\ UNCHANGED <<firstIns, cache, disk, geo, prev, netret, mon, first, passes, ext>>

StoreNext == SaveOffer \/ MarkInactive

SpecStore == StoreInit /\ [][StoreNext]_vars

(***************************************************************************)
(* _extract_address_IMPROVED                                               *)
(*                                                                         *)
(* A text is a sequence of characters.  A letter with a diacritic is       *)
(* written as its base letter and a mark: "o'" is o-acute, "s'" s-acute,   *)
(* "l/" l-stroke, "e," e-ogonek.  The patterns are applied with            *)
(* re.IGNORECASE: a class of capitals or of small letters matches both.    *)
(***************************************************************************)
ascii_lowercase ==
    <<"a", "b", "c", "d", "e", "f", "g", "h", "i", "j", "k", "l", "m",
      "n", "o", "p", "q", "r", "s", "t", "u", "v", "w", "x", "y", "z">>
ascii_uppercase ==
    <<"A", "B", "C", "D", "E", "F", "G", "H", "I", "J", "K", "L", "M",
      "N", "O", "P", "Q", "R", "S", "T", "U", "V", "W", "X", "Y", "Z">>
polish_lowercase == <<"a,", "c'", "e,", "l/", "n'", "o'", "s'", "z'", "z.">>
polish_uppercase == <<"A,", "C'", "E,", "L/", "N'", "O'", "S'", "Z'", "Z.">>
digits == <<"0", "1", "2", "3", "4", "5", "6", "7", "8", "9">>

Range(seq) == { seq[k] : k \in 1..Len(seq) }

\* [a-zA-Z]
AsciiLetter == Range(ascii_lowercase) \cup Range(ascii_uppercase)
\* [A-ZĄĆĘŁŃÓŚŹŻ] and [a-ząćęłńóśźż] under re.IGNORECASE
Letter == AsciiLetter \cup Range(polish_lowercase) \cup Range(polish_uppercase)
\* \d
Digit == Range(digits)
\* \s
Space == {" ", "\t", "\n"}
\* [a-ząćęłńóśźż\s]
NameChar == Letter \cup Space
\* [\/\-\s]
Separator == {"/", "-"} \cup Space
\* [,\.\s] after \s*
Boundary == {",", "."} \cup Space

lowercase == ascii_lowercase \o polish_lowercase
uppercase == ascii_uppercase \o polish_uppercase

\* str.lower() and str.upper() of one character
lower_char(c) ==
    IF \E k \in 1..Len(uppercase) : uppercase[k] = c
    THEN lowercase[CHOOSE k \in 1..Len(uppercase) : uppercase[k] = c]
    ELSE c

upper_char(c) ==
    IF \E k \in 1..Len(lowercase) : lowercase[k] = c
    THEN uppercase[CHOOSE k \in 1..Len(lowercase) : lowercase[k] = c]
    ELSE c

\* str.lower()
lower_text(text) == [k \in 1..Len(text) |-> lower_char(text[k])]

\* str.title(): a letter after a letter is made small, any other letter capital
str_title(text) ==
    [k \in 1..Len(text) |->
        IF k > 1 /\ text[k - 1] \in Letter
        THEN lower_char(text[k]) ELSE upper_char(text[k])]

\* str.strip(): the text without its leading and trailing whitespace
strip(text) ==
    LET inner == { k \in 1..Len(text) : text[k] \notin Space } IN
    IF inner = {} THEN <<>>
    ELSE SubSeq(text, CHOOSE a \in inner : \A b \in inner : a <= b,
                      CHOOSE a \in inner : \A b \in inner : a >= b)

\* int() of a run of digits
RECURSIVE int(_)
int(ds) ==
    IF ds = <<>> THEN 0
    ELSE 10 * int(SubSeq(ds, 1, Len(ds) - 1))
            + (CHOOSE v \in 0..9 : digits[v + 1] = ds[Len(ds)])

\* the character at a position; past the end there is none
At(text, k) == IF k \in 1..Len(text) THEN text[k] ELSE ""

\* where a greedy run of characters of a class, started at position k, ends:
\* the first position from k on whose character is not in the class
RunEnd(text, k, class) ==
    CHOOSE j \in k..(Len(text) + 1) :
        /\ \A m \in k..(j - 1) : text[m] \in class
        /\ At(text, j) \notin class

\* the text has the word (in small letters) at position k, whatever the case
HasWord(text, k, word) ==
    /\ k + Len(word) - 1 <= Len(text)
    /\ \A m \in 1..Len(word) : lower_char(text[k + m - 1]) = word[m]

\* $: the end of the text, or the newline that ends it
AtEnd(text, k) == k = Len(text) + 1 \/ (k = Len(text) /\ text[k] = "\n")

\* (?=\s*[,\.\s]*(?:lublin|$)) at position k
Lookahead(text, k) ==
    LET y == RunEnd(text, k, Boundary) IN
    \/ HasWord(text, y, <<"l", "u", "b", "l", "i", "n">>)
    \/ \E z \in k..y : AtEnd(text, z)

\* a match: the four groups and the position after its last character
Match(street, number, letter, apartment, end) ==
    <<[street |-> street, number |-> number, letter |-> letter,
       apartment |-> apartment, end |-> end]>>

\* \s+([A-Z...][a-z...\s]+?)\s+(\d+)([a-zA-Z]?)(?:[\/\-\s]*(\d+))? from position p
\* on, which is what follows the marker in the first three patterns.  The name
\* is lazy: it ends before the first whitespace that a digit follows; the
\* number, the letter and the unit are greedy, and nothing follows them that
\* could make the match give back a character.
MarkedTail(text, p) ==
    LET q == RunEnd(text, p, Space) IN
    IF q = p \/ At(text, q) \notin Letter THEN <<>>
    ELSE
    LET ends == { e \in (q + 1)..Len(text) :
                    /\ \A k \in (q + 1)..e : text[k] \in NameChar
                    /\ At(text, e + 1) \in Space
                    /\ At(text, RunEnd(text, e + 1, Space)) \in Digit }
    IN  IF ends = {} THEN <<>>
        ELSE
        LET e == CHOOSE a \in ends : \A b \in ends : a <= b
            r == RunEnd(text, e + 1, Space)
            d == RunEnd(text, r, Digit)
            l == IF At(text, d) \in AsciiLetter THEN d + 1 ELSE d
            u == RunEnd(text, l, Separator)
            v == RunEnd(text, u, Digit)
        IN  Match(SubSeq(text, q, e), SubSeq(text, r, d - 1), SubSeq(text, d, l - 1),
                  IF v > u THEN SubSeq(text, u, v - 1) ELSE None,
                  IF v > u THEN v ELSE l)

\* the bare pattern at position s, with the lookahead that ends it.  A try is
\* one way to match it: the name ends at e, the number before d, the letter
\* before l and the match at v (v = l when there is no unit).
BareTries(text, s) ==
    UNION { UNION { UNION { {
        [e |-> e, d |-> d, l |-> l, v |-> v] :
            v \in { x \in {l} \cup
                          ((RunEnd(text, l, Separator) + 1)
                              ..RunEnd(text, RunEnd(text, l, Separator), Digit)) :
                    Lookahead(text, x) } } :
            l \in { x \in {d, d + 1} : x = d \/ At(text, d) \in AsciiLetter } } :
            d \in (RunEnd(text, e + 1, Space) + 1)
                      ..RunEnd(text, RunEnd(text, e + 1, Space), Digit) } :
            e \in { x \in (s + 3)..(s + 25) :
                      /\ x <= Len(text)
                      /\ \A k \in (s + 1)..x : text[k] \in NameChar
                      /\ At(text, x + 1) \in Space } }

\* the order in which the regex engine makes its tries: the name from 4
\* characters up (lazy), the number from its longest run down, the letter before
\* no letter, the unit (from its longest run down) before no unit
TriedBefore(t, o) ==
    \/ t.e < o.e
    \/ t.e = o.e /\ t.d > o.d
    \/ t.e = o.e /\ t.d = o.d /\ t.l > o.l
    \/ t.e = o.e /\ t.d = o.d /\ t.l = o.l /\ t.v >= o.v

\* the first try that the lookahead accepts
FirstTry(tries) == CHOOSE t \in tries : \A o \in tries : TriedBefore(t, o)

\* the groups of a try
TryMatch(text, s, t) ==
    Match(SubSeq(text, s, t.e),
          SubSeq(text, RunEnd(text, t.e + 1, Space), t.d - 1),
          SubSeq(text, t.d, t.l - 1),
          IF t.v > t.l THEN SubSeq(text, RunEnd(text, t.l, Separator), t.v - 1)
          ELSE None,
          t.v)

BareMatch(text, s, tries) ==
    IF tries = {} THEN <<>> ELSE TryMatch(text, s, FirstTry(tries))

Bare(text, s) ==
    IF At(text, s) \notin Letter THEN <<>> ELSE BareMatch(text, s, BareTries(text, s))

\* self.address_patterns: the match of pattern i that starts at position s
\*   1  [Aa]l\.?   2  [Uu]l\.?   3  [Uu]lica   4  no marker
address_patterns(i, text, s) ==
    CASE i = 1 -> IF HasWord(text, s, <<"a", "l">>)
                  THEN MarkedTail(text, IF At(text, s + 2) = "." THEN s + 3 ELSE s + 2)
                  ELSE <<>>
      [] i = 2 -> IF HasWord(text, s, <<"u", "l">>)
                  THEN MarkedTail(text, IF At(text, s + 2) = "." THEN s + 3 ELSE s + 2)
                  ELSE <<>>
      [] i = 3 -> IF HasWord(text, s, <<"u", "l", "i", "c", "a">>)
                  THEN MarkedTail(text, s + 5)
                  ELSE <<>>
      [] i = 4 -> Bare(text, s)

NumPatterns == 4

\* the match of pattern i at the leftmost of the starts
LeftmostMatch(i, text, starts) ==
    IF starts = {} THEN <<>>
    ELSE address_patterns(i, text, CHOOSE a \in starts : \A b \in starts : a <= b)

\* re.finditer: the next match of pattern i at or after position from (the
\* leftmost start that matches)
NextMatch(i, text, from) ==
    LeftmostMatch(i, text, { s \in from..Len(text) : address_patterns(i, text, s) # <<>> })

\* re.finditer: the matches of pattern i from position from on, from left to
\* right, each one sought after the end of the one before
RECURSIVE finditer(_, _, _)
finditer(i, text, from) ==
    LET m == NextMatch(i, text, from) IN
    IF m = <<>> THEN <<>> ELSE m \o finditer(i, text, m[1].end)

stoplist ==
    { <<"p", "o", "k", "o'", "j">>, <<"p", "o", "k", "o", "j">>,
      <<"w", "y", "n", "a", "j", "m">>,
      <<"m", "i", "e", "s", "z", "k", "a", "n", "i", "e">>,
      <<"o", "f", "e", "r", "t", "a">> }

\* (faulty variant of Validated: the number is not checked)
Validated_name(m) ==
    LET street_name == strip(m.street) IN
    ~ ( \/ Len(street_name) < 3
        \/ lower_text(street_name) \in stoplist
        \/ \E k \in 1..3 : At(street_name, k) \in Digit )

\* the two filters of the loop body: the name, then the number
Validated(m) ==
    LET street_name == strip(m.street) IN
    /\ ~ ( \/ Len(street_name) < 3
           \/ lower_text(street_name) \in stoplist
           \/ \E k \in 1..3 : At(street_name, k) \in Digit )
    /\ 1 <= int(m.number) /\ int(m.number) <= 999

\* the dict that is returned for a match
AddressInfo(m) ==
    LET street_normalized == str_title(strip(m.street))
        full_building_number == m.number \o m.letter
    IN  [street_name |-> street_normalized,
         building_number |-> full_building_number,
         apartment_number |-> m.apartment,
         full_address |->
            <<"u", "l", ".", " ">> \o street_normalized \o <<" ">>
                \o full_building_number
                \o (IF m.apartment # None THEN <<"/">> \o m.apartment ELSE <<>>)
                \o <<",", " ", "L", "u", "b", "l", "i", "n">>]

\* "for match in matches" for pattern i, from position from on: the dict of the
\* first match that passes the filters; <<>> when the matches are used up
RECURSIVE scan_matches(_, _, _)
scan_matches(i, text, from) ==
    LET m == NextMatch(i, text, from) IN
    IF m = <<>> THEN <<>>
    ELSE IF Validated(m[1]) THEN <<AddressInfo(m[1])>>
    ELSE scan_matches(i, text, m[1].end)

\* (faulty variant of FirstResult: a result of a later pattern is preferred)
FirstResult_later(result, later) == IF later # <<>> THEN later ELSE result

\* "return result" inside the loops: the result of a pattern ends the search,
\* the later patterns are tried when it has none
FirstResult(result, later) == IF result # <<>> THEN result ELSE later

\* "for pattern in self.address_patterns", from pattern i on; <<>> is None
RECURSIVE scan_patterns(_, _)
scan_patterns(i, text) ==
    IF i > NumPatterns THEN <<>>
    ELSE FirstResult(scan_matches(i, text, 1), scan_patterns(i + 1, text))

extract_address_IMPROVED(text) == scan_patterns(1, text)

\* (faulty variant of full_text: the description comes first)
full_text_description_first(title, description) ==
    IF description # None /\ description # <<>>
    THEN description \o <<" ">> \o title
    ELSE title

\* full_text = f"{title} {description}" if description else title
full_text(title, description) ==
    IF description # None /\ description # <<>>
    THEN title \o <<" ">> \o description
    ELSE title

(***************************************************************************)
(* SpecExtract: the address extraction of _process_offer_CONTENT on the    *)
(* title and the description of a page.  A title is put together from a    *)
(* lead, a marker, a street name, a number with or without a letter and a  *)
(* unit, and what follows.                                                 *)
(***************************************************************************)
Leads == { <<>>, <<"P", "o", "k", "o'", "j", " ", "w", " ">> }

Markers ==
    { <<"u", "l", ".", " ">>, <<"u", "l", "i", "c", "a", " ">>,
      <<"A", "l", ".", " ">>, <<>> }

Streets ==
    { <<"N", "a", "r", "u", "t", "o", "w", "i", "c", "z", "a">>,
      <<"K", "r", "a", "s'", "n", "i", "c", "k", "a">>,
      <<"d", "l/", "u", "g", "a">>,
      <<"P", "o", "k", "o'", "j">>,
      <<"N", "a">> }

Numbers == { <<"1", "4">>, <<"7", "3">>, <<"0">>, <<"1", "2", "3", "4">> }

Letters == { <<>>, <<"a">> }

Units == { None, <<"1", "2">> }

Trails ==
    { <<>>, <<",", " ", "L", "u", "b", "l", "i", "n">>,
      <<" ", "2", " ", "p", "o", "k", "o", "j", "e">> }

TitleParts ==
    [lead : Leads, marker : Markers, street : Streets, number : Numbers,
     letter : Letters, unit : Units, trail : Trails]

\* the title that the parts make
TitleOf(parts) ==
    parts.lead \o parts.marker \o parts.street \o <<" ">> \o parts.number
        \o parts.letter
        \o (IF parts.unit # None THEN <<"/">> \o parts.unit ELSE <<>>)
        \o parts.trail

\* titles without an address
PlainTitles ==
    { <<"b", "r", "a", "k", " ", "a", "d", "r", "e", "s", "u", " ",
        "t", "u", "t", "a", "j">>,
      <<"P", "o", "k", "o'", "j", " ", "j", "e", "d", "n", "o",
        "o", "s", "o", "b", "o", "w", "y">> }

\* what _extract_title returns, with the parts it was made of (none for a plain title)
Titles ==
    { [parts |-> <<parts>>, text |-> TitleOf(parts)] : parts \in TitleParts }
        \cup { [parts |-> <<>>, text |-> text] : text \in PlainTitles }

\* what _extract_description returns: None, an empty text, a text without an
\* address, a text that starts with a number, and texts with an address of the
\* avenue, the street and the bare form
Descriptions ==
    { None, <<>>,
      <<"b", "r", "a", "k", " ", "a", "d", "r", "e", "s", "u">>,
      <<"5", " ", "m", "i", "n", " ", "d", "o", " ", "c", "e", "n", "t", "r", "u", "m">>,
      <<"b", "l", "i", "s", "k", "o", " ", "A", "l", ".", " ",
        "R", "a", "c", "l/", "a", "w", "i", "c", "k", "i", "e", " ", "5">>,
      <<"u", "l", ".", " ", "D", "l/", "u", "g", "a", " ", "7", ",", " ",
        "L", "u", "b", "l", "i", "n">>,
      <<"D", "l/", "u", "g", "a", " ", "7">> }

\* soup, title, price, description of _process_offer_CONTENT
ReadPage ==
    /\ ext.pc = "idle"
    /\ \E title \in Titles, description \in Descriptions :
          ext' = [ExtIdle EXCEPT !.pc = "page", !.parts = title.parts,
                                 !.title = title.text,
                                 !.description = description]
    /\ UNCHANGED <<db, ret, firstIns, cache, disk, geo, prev, netret, mon, first, passes>>

\* full_text and address_info of _process_offer_CONTENT
ExtractAddress ==
    /\ ext.pc = "page"
    /\ LET text == full_text(ext.title, ext.description) IN
       ext' = [ext EXCEPT !.pc = "done", !.full_text = text,
                          !.address_info = extract_address_IMPROVED(text)]
    /\ UNCHANGED <<db, ret, firstIns, cache, disk, geo, prev, netret, mon, first, passes>>

\* _process_offer_CONTENT returns; the loop goes on to the next offer
NextPage ==
    /\ ext.pc = "done"
    /\ ext' = ExtIdle
    /\ UNCHANGED <<db, ret, firstIns, cache, disk, geo, prev, netret, mon, first, passes>>

ExtractInit == GeoInit

ExtractNext == ReadPage \/ ExtractAddress \/ NextPage

SpecExtract == ExtractInit /\ [][ExtractNext]_vars

(***************************************************************************)
(* ImprovedOLXMonitor: main() builds the monitor (the geocoder loads the   *)
(* cache file) and runs one pass; the next pass is a new process.          *)
(***************************************************************************)

\* what _collect_ALL_offers returns: offers with pairwise distinct ids, each with
\* the url of its link
url_of(id) == IF id = "A" THEN "u1" ELSE "u2"

AllOffers ==
    { <<>> } \cup
    { <<[offer_id |-> a, url |-> url_of(a)]>> : a \in OfferIds } \cup
    { <<[offer_id |-> p[1], url |-> url_of(p[1])],
        [offer_id |-> p[2], url |-> url_of(p[2])]>> :
        p \in { q \in OfferIds \X OfferIds : q[1] # q[2] } }

\* the title, price and description read from an offer's page; the description
\* may be missing
Pages ==
    { [title |-> <<"a", "1">>, price |-> <<"2">>, price_numeric |-> 2,
       description |-> <<"c">>],
      [title |-> <<"b">>, price |-> <<"3">>, price_numeric |-> 3,
       description |-> None] }

\* what _extract_address_IMPROVED finds in the text of an offer's page
address_of(id) ==
    IF id = "A"
    THEN [street_name |-> "Narutowicza", building_number |-> "14",
          apartment_number |-> "NULL", full_address |-> "ul. Narutowicza 14, Lublin"]
    ELSE [street_name |-> "Krasnicka", building_number |-> "73a",
          apartment_number |-> "12", full_address |-> "ul. Krasnicka 73a/12, Lublin"]

\* RoomOffer(...) at the end of _process_offer_CONTENT; the texts of the model
\* are shorter than the 2000 characters the description is cut to
process_offer(basic_offer, page, address_info, coords, timestamp) ==
    [offer_id |-> basic_offer.offer_id, title |-> page.title, price |-> page.price,
     price_numeric |-> page.price_numeric, url |-> basic_offer.url,
     description |-> IF page.description = None THEN <<>> ELSE page.description,
     street_name |-> address_info.street_name,
     building_number |-> address_info.building_number,
     apartment_number |-> address_info.apartment_number,
     full_address |-> address_info.full_address,
     latitude |-> coords.lat, longitude |-> coords.lon,
     first_seen |-> timestamp, last_seen |-> timestamp, is_active |-> TRUE,
     hash |-> content_hash(page.title, page.price, page.description)]

\* return {'status': 'ERROR', ...} from the except of run_monitoring
Error(m) == [m EXCEPT !.pc = "done", !.out = <<[status |-> "ERROR"]>>]

\* full_offer is None: the body of "if full_offer" is skipped, the loop goes on
\* with the next offer
ReturnNone(m, why) ==
    [m EXCEPT !.pc = "loop", !.i = m.i + 1, !.page = <<>>,
              !.log = Append(m.log, why)]

\* (faulty variant of ProcessFailure: the exception leaves _process_offer_CONTENT)
ProcessFailure_raise(m) == Error(m)

\* except Exception in _process_offer_CONTENT: a warning, return None
ProcessFailure(m) == ReturnNone(m, "exception")

\* (faulty variant of LoopDone: what follows the loop is run inside its body)
LoopDone_early(m) == m.i > Len(m.all_offers) \/ m.i > 1

\* "for i, basic_offer in enumerate(all_offers, 1)" has no offer left
LoopDone(m) == m.i > Len(m.all_offers)

\* (faulty variant of except_table: a finally clause marks what was not seen)
except_table_finally(table, m) ==
    mark_inactive_offers(table, m.active_ids, m.timestamp)

\* the table when an exception, or the end of the process, leaves the loop of
\* run_monitoring: neither the except clause nor anything after it writes to it
except_table(table, m) == table

\* (faulty variant of final_stats: with_addresses counts every offer found)
final_stats_found(m, table) ==
    LET active_count == Cardinality({id \in DOMAIN table : table[id].is_active})
        inactive_count == Cardinality(DOMAIN table) - active_count
    IN  [total_found |-> Len(m.all_offers),
         with_addresses |-> Len(m.all_offers),
         new_offers |-> m.stats.new,
         updated_offers |-> m.stats.updated,
         active_offers |-> active_count,
         inactive_offers |-> inactive_count]

\* final_stats, from the locals and from what get_all_offers returns
final_stats(m, table) ==
    LET active_count == Cardinality({id \in DOMAIN table : table[id].is_active})
        inactive_count == Cardinality(DOMAIN table) - active_count
    IN  [total_found |-> Len(m.all_offers),
         with_addresses |-> m.processed_offers,
         new_offers |-> m.stats.new,
         updated_offers |-> m.stats.updated,
         active_offers |-> active_count,
         inactive_offers |-> inactive_count]

\* save_stats: the row INSERTed into monitoring_stats (its timestamp column is
\* the time of the INSERT, which the model does not tell from the pass's)
save_stats(stats, timestamp) ==
    [timestamp |-> timestamp, total_found |-> stats.total_found,
     with_addresses |-> stats.with_addresses, new_offers |-> stats.new_offers,
     updated_offers |-> stats.updated_offers,
     active_offers |-> stats.active_offers,
     inactive_offers |-> stats.inactive_offers]

\* main(): ImprovedOLXMonitor(), then run_monitoring up to the offer loop
Main ==
    /\ mon.pc \in {"idle", "done"}
    /\ passes < MaxPasses
    /\ passes' = passes + 1
    /\ cache' = load_cache(disk)
    /\ geo' = GeoIdle
    /\ ret' = NoCall
    /\ \/ \E all_offers \in AllOffers :
             mon' = [MonIdle EXCEPT !.pc = "loop", !.timestamp = passes + 1,
                                    !.all_offers = all_offers, !.i = 1]
       \/ mon' = [MonIdle EXCEPT !.pc = "done",     \* DatabaseManager() raises
                                 !.out = <<[status |-> "EXCEPTION"]>>]
    /\ UNCHANGED <<db, firstIns, disk, prev, netret, first, ext>>

\* _process_offer_CONTENT up to the call of geocode
ProcessOffer ==
    /\ mon.pc = "loop" /\ ~LoopDone(mon)
    /\ \/ /\ mon' = ProcessFailure(mon)               \* session.get, ... raises
          /\ UNCHANGED <<geo>>
       \/ /\ mon' = ReturnNone(mon, "no_address")     \* not address_info
          /\ UNCHANGED <<geo>>
       \/ \E page \in Pages :
            LET address_info == address_of(mon.all_offers[mon.i].offer_id) IN
            /\ GeocodeEnter(address_info.street_name, address_info.building_number)
            /\ mon' = [mon EXCEPT !.pc = "geo", !.page = <<page>>]
    /\ UNCHANGED <<db, ret, firstIns, cache, disk, prev, netret, first, passes, ext>>

PassQuery ==
    /\ mon.pc = "geo"
    /\ \E resp \in Responses : GeocodeQuery(resp)
    /\ UNCHANGED <<db, ret, firstIns, prev, mon, first, passes, ext>>

PassWrite ==
    /\ mon.pc = "geo"
    /\ GeocodeWrite
    /\ UNCHANGED <<db, ret, firstIns, prev, mon, first, passes, ext>>

\* the rest of _process_offer_CONTENT and of the loop body: save_offer
OfferDone ==
    /\ mon.pc = "geo" /\ geo.pc = "ret"
    /\ geo' = GeoIdle
    /\ \/ /\ geo.ret = <<>>                            \* not coords: return None
          /\ mon' = ReturnNone(mon, "no_coords")
          /\ UNCHANGED <<db, ret, firstIns>>
       \/ /\ geo.ret # <<>>
          /\ LET full_offer == process_offer(mon.all_offers[mon.i], mon.page[1],
                                   address_of(mon.all_offers[mon.i].offer_id),
                                   geo.ret[1], mon.timestamp)
                 r == save_offer(db, full_offer)
             IN  /\ db' = r.table
                 /\ ret' = [op |-> "save_offer", offer |-> full_offer,
                            result |-> r.result]
                 /\ firstIns' = IF r.result = "new"
                                THEN (full_offer.offer_id :> full_offer.first_seen)
                                        @@ firstIns
                                ELSE firstIns
                 /\ mon' = [mon EXCEPT
                       !.pc = "loop", !.i = mon.i + 1, !.page = <<>>,
                       !.log = Append(mon.log, r.result),
                       !.processed_offers = mon.processed_offers + 1,
                       !.active_ids = mon.active_ids \cup {full_offer.offer_id},
                       !.stats = [mon.stats EXCEPT ![r.result] = mon.stats[r.result] + 1]]
       \/ /\ geo.ret # <<>>                            \* save_offer raises
          /\ mon' = Error([mon EXCEPT
                       !.log = Append(mon.log, "store_error"),
                       !.processed_offers = mon.processed_offers + 1,
                       !.active_ids = mon.active_ids
                                        \cup {mon.all_offers[mon.i].offer_id}])
          /\ db' = except_table(db, mon)
          /\ UNCHANGED <<ret, firstIns>>
    /\ UNCHANGED <<cache, disk, prev, netret, first, passes, ext>>

\* after the loop: mark_inactive_offers
MarkStep ==
    /\ mon.pc = "loop" /\ LoopDone(mon)
    /\ \/ /\ db' = mark_inactive_offers(db, mon.active_ids, mon.timestamp)
          /\ ret' = [op |-> "mark_inactive_offers", active_ids |-> mon.active_ids,
                     timestamp |-> mon.timestamp]
          /\ mon' = [mon EXCEPT !.pc = "report", !.marks = mon.marks + 1]
       \/ /\ mon' = Error(mon)                         \* sqlite3 raises
          /\ UNCHANGED <<db, ret>>
    /\ UNCHANGED <<firstIns, cache, disk, geo, prev, netret, first, passes, ext>>

\* get_all_offers, the map, final_stats, save_stats
Report ==
    /\ mon.pc = "report"
    /\ \/ mon' = [mon EXCEPT !.pc = "done", !.out = <<final_stats(mon, db)>>,
                              !.row = <<save_stats(final_stats(mon, db),
                                                   mon.timestamp)>>]
       \/ mon' = Error(mon)                            \* sqlite3 or the map raises
    /\ UNCHANGED <<db, ret, firstIns, cache, disk, geo, prev, netret, first, passes, ext>>

\* the process is stopped (SIGINT, SIGTERM, the job's timeout) inside the loop:
\* KeyboardInterrupt and SystemExit are not caught by "except Exception"
Kill ==
    /\ mon.pc \in {"loop", "geo"} /\ ~LoopDone(mon)
    /\ mon' = [mon EXCEPT !.pc = "done", !.out = <<[status |-> "KILLED"]>>]
    /\ geo' = GeoIdle
    /\ db' = except_table(db, mon)
    /\ UNCHANGED <<ret, firstIns, cache, disk, prev, netret, first, passes, ext>>

Init == GeoInit

Next ==
    \/ Main \/ ProcessOffer \/ PassQuery \/ PassWrite \/ OfferDone \/ MarkStep
    \/ Report \/ Kill

Spec == Init /\ [][Next]_vars

(***************************************************************************)
(* Claims about the store, checked under SpecStore.                        *)
(***************************************************************************)

\* C1: the first_seen of a stored offer is the first_seen of the offer that was
\* inserted under its id; no later save_offer (updated or unchanged) and no
\* mark_inactive_offers overwrites it.
C1_FirstSeenKept ==
    \A id \in DOMAIN db :
        id \in DOMAIN firstIns /\ db[id].first_seen = firstIns[id]

\* an update that advanced last_seen past a first_seen it did not take over
C1_Witness ==
    /\ ret.op = "save_offer" /\ ret.result = "updated"
    /\ db[ret.offer.offer_id].last_seen = ret.offer.last_seen
    /\ db[ret.offer.offer_id].first_seen < ret.offer.first_seen

\* C2: save_offer returns new exactly when no row has the id, updated exactly
\* when a row has it and (its hash differs from the offer's or it is inactive),
\* unchanged exactly when a row has it, is active and has the same hash; the
\* same content saved again right after a new is unchanged.
C2_Classification ==
    [][ret'.op = "save_offer" =>
        LET o == ret'.offer
            id == ret'.offer.offer_id
        IN  /\ (ret'.result = "new") <=> (id \notin DOMAIN db)
            /\ (ret'.result = "updated") <=>
                 (id \in DOMAIN db /\ (db[id].hash # o.hash \/ ~db[id].is_active))
            /\ (ret'.result = "unchanged") <=>
                 (id \in DOMAIN db /\ db[id].is_active /\ db[id].hash = o.hash)
            /\ ret'.result \in {"new", "updated", "unchanged"}
            /\ ( /\ ret.op = "save_offer" /\ ret.result = "new"
                 /\ ret.offer.offer_id = id
                 /\ ret.offer.title = o.title /\ ret.offer.price = o.price
                 /\ ret.offer.description = o.description )
               => ret'.result = "unchanged"
    ]_vars

\* an inactive row with the offer's hash was saved again: updated
C2_Witness ==
    /\ ret.op = "save_offer" /\ ret.result = "updated"
    /\ db[ret.offer.offer_id].first_seen = ret.offer.last_seen
    /\ \E id \in DOMAIN db : ~db[id].is_active

\* C3: mark_inactive_offers(active_ids, timestamp) sets is_active = 0 and
\* last_seen = timestamp in exactly the active rows whose id is not in
\* active_ids; every other row, and the set of rows, is unchanged.
C3_MarkInactive ==
    [][ret'.op = "mark_inactive_offers" =>
        /\ DOMAIN db' = DOMAIN db
        /\ \A id \in DOMAIN db :
              IF db[id].is_active /\ id \notin ret'.active_ids
              THEN db'[id] = [db[id] EXCEPT !.is_active = FALSE,
                                            !.last_seen = ret'.timestamp]
              ELSE db'[id] = db[id]
        /\ ret'.active_ids = {} => \A id \in DOMAIN db' : ~db'[id].is_active
    ]_vars

\* a call that kept one row active and left an already inactive row alone
C3_Witness ==
    /\ ret.op = "mark_inactive_offers"
    /\ \E a \in DOMAIN db : a \in ret.active_ids /\ db[a].is_active
    /\ \E b \in DOMAIN db :
          /\ b \notin ret.active_ids /\ ~db[b].is_active
          /\ db[b].last_seen # ret.timestamp

\* C4: save_offer on an existing row leaves url, the address columns, the
\* coordinates and first_seen as stored; updated overwrites title, price,
\* description, last_seen and hash with the offer's and sets is_active;
\* unchanged overwrites last_seen only.  No other row changes.
FrameColumns(row) ==
    <<row.offer_id, row.url, row.street_name, row.building_number,
      row.apartment_number, row.full_address, row.latitude, row.longitude,
      row.first_seen>>

C4_Frame ==
    [][(ret'.op = "save_offer" /\ ret'.result # "new") =>
        LET o == ret'.offer
            id == ret'.offer.offer_id
        IN  /\ DOMAIN db' = DOMAIN db
            /\ \A other \in DOMAIN db \ {id} : db'[other] = db[other]
            /\ FrameColumns(db'[id]) = FrameColumns(db[id])
            /\ db'[id].last_seen = o.last_seen
            /\ ret'.result = "updated" =>
                 /\ db'[id].title = o.title /\ db'[id].price = o.price
                 /\ db'[id].price_numeric = o.price_numeric
                 /\ db'[id].description = o.description
                 /\ db'[id].hash = o.hash /\ db'[id].is_active
            /\ ret'.result = "unchanged" =>
                 db'[id] = [db[id] EXCEPT !.last_seen = o.last_seen]
    ]_vars

\* an update by an offer that carries another url, address and coordinates
C4_Witness ==
    /\ ret.op = "save_offer" /\ ret.result = "updated"
    /\ db[ret.offer.offer_id].url # ret.offer.url
    /\ db[ret.offer.offer_id].full_address # ret.offer.full_address
    /\ db[ret.offer.offer_id].latitude # ret.offer.latitude
    /\ db[ret.offer.offer_id].title = ret.offer.title

(***************************************************************************)
(* Claims about the geocoder, checked under SpecGeo.                       *)
(***************************************************************************)
SameArguments ==
    /\ prev # NoPrev /\ geo.pc # "idle"
    /\ prev[1].street = geo.street /\ prev[1].number = geo.number

C7_FirstAccepted ==
    (geo.pc = "ret" /\ geo.sent # <<>>) =>
        /\ Len(geo.sent) <= 6
        /\ geo.sent = SubSeq(queries(geo.street, geo.number), 1, Len(geo.sent))
        /\ IF first = <<>>
           THEN geo.ret = <<>> /\ Len(geo.sent) = 6
           ELSE geo.ret = <<first[1].pt>> /\ Len(geo.sent) = first[1].qi

\* C24: a geocode call that returns None leaves the cache as it was when the
\* call was made, in memory and in the file, and the next call with the same
\* (street, number) sends the queries again, from the first one.
C24_NoneLeavesCache ==
    /\ (geo.pc = "ret" /\ geo.ret = <<>>)
          => /\ cache = geo.entry[1].cache
             /\ disk = geo.entry[1].disk
    /\ (SameArguments /\ prev[1].ret = <<>> /\ geo.pc = "ret")
          => /\ geo.sent # <<>>
             /\ geo.sent[1] = queries(geo.street, geo.number)[1]

\* C9: the entry of a key that geocode has resolved and returned stays in the
\* cache with that point, in every later state and after a restart.
C9_EntryKept ==
    \A k \in DOMAIN netret : k \in DOMAIN cache /\ cache[k] = netret[k]

\* C10: once geocode has returned a point from the network, the cache file
\* holds the entry: whenever the process dies afterwards, the restarted
\* process loads it.
C10_Durable ==
    \A k \in DOMAIN netret :
        k \in DOMAIN load_cache(disk) /\ load_cache(disk)[k] = netret[k]

\* C11: when the process is killed while _save_cache writes the file, the
\* restarted process finds a readable file and loads every entry the file held
\* before that write.
C11_NoPartialWrite ==
    [][(geo.pc = "write" /\ geo'.pc = "idle") =>
        /\ disk'.state = "json"
        /\ \A k \in DOMAIN geo.old : k \in DOMAIN cache' /\ cache'[k] = geo.old[k]
    ]_vars

(***************************************************************************)
(* Claims about the address extraction, checked under SpecExtract.         *)
(***************************************************************************)

\* the title is the whole text, and it has a marked address (ul., ulica, Al.)
\* whose street name and number are valid
MarkedTitle ==
    /\ ext.pc = "done" /\ ext.full_text = ext.title
    /\ ext.parts # <<>>
    /\ ext.parts[1].marker # <<>>
    /\ Len(ext.parts[1].street) >= 3
    /\ ext.parts[1].street # <<"P", "o", "k", "o'", "j">>
    /\ ext.parts[1].number \in { <<"1", "4">>, <<"7", "3">> }

\* C18: for a text with a marked address "<marker> <Street> <Number><Letter>"
\* or "<marker> <Street> <Number><Letter>/<Unit>", marker ul., ulica or Al., the
\* extraction gives the street name in title case, the number with its letter,
\* the unit when the address has one (None when it has none) and the formatted
\* address "ul. <Street> <Number><Letter>[/<Unit>], Lublin".
C18_MarkedAddress ==
    MarkedTitle =>
        LET parts == ext.parts[1]
            street == <<upper_char(parts.street[1])>> \o Tail(parts.street)
        IN  ext.address_info =
              <<[street_name |-> street,
                 building_number |-> parts.number \o parts.letter,
                 apartment_number |-> parts.unit,
                 full_address |->
                    <<"u", "l", ".", " ">> \o street \o <<" ">>
                       \o parts.number \o parts.letter
                       \o (IF parts.unit # None THEN <<"/">> \o parts.unit ELSE <<>>)
                       \o <<",", " ", "L", "u", "b", "l", "i", "n">>]>>

\* the text has nothing of the shape of an address: no whitespace that a digit
\* follows
NoAddressShape(text) ==
    ~ \E k \in 1..(Len(text) - 1) : text[k] \in Space /\ text[k + 1] \in Digit

\* some pattern has, at some position of the text, a match that passes the filters
SomeValidMatch(text) ==
    \E i \in 1..NumPatterns, s \in 1..Len(text) :
        /\ address_patterns(i, text, s) # <<>>
        /\ Validated(address_patterns(i, text, s)[1])

\* C19: the extraction returns None or an address whose building number
\* starts with digits that make a number from 1 to 999 and whose street name
\* has 3 characters or more and is none of pokój, pokoj, wynajm, mieszkanie,
\* oferta; it returns None when the text has nothing of the shape of an address
\* and when no match of a pattern passes the filters.
C19_Validated ==
    ext.pc = "done" =>
        /\ ext.address_info # <<>> =>
              LET a == ext.address_info[1]
                  prefix == SubSeq(a.building_number, 1,
                                   RunEnd(a.building_number, 1, Digit) - 1)
              IN  /\ prefix # <<>>
                  /\ 1 <= int(prefix) /\ int(prefix) <= 999
                  /\ Len(a.street_name) >= 3
                  /\ lower_text(a.street_name) \notin stoplist
        /\ NoAddressShape(ext.full_text) => ext.address_info = <<>>
        /\ ~SomeValidMatch(ext.full_text) => ext.address_info = <<>>

\* the marked address of the title has a stoplisted name, the extraction went
\* on and returned the address of the description
C19_Witness ==
    /\ ext.pc = "done" /\ ext.parts # <<>>
    /\ ext.parts[1].marker = <<"u", "l", ".", " ">>
    /\ ext.parts[1].street = <<"P", "o", "k", "o'", "j">>
    /\ ext.parts[1].number = <<"1", "4">>
    /\ ext.address_info # <<>>
    /\ ext.address_info[1].street_name = <<"D", "l/", "u", "g", "a">>
    /\ ext.address_info[1].building_number = <<"7">>

\* the page has a description, which follows the title in the text
HasDescription == ext.description # None /\ ext.description # <<>>

\* C20 (as stated): the extraction runs on title + " " + description, and when
\* the title and the description both have an address, the address of the
\* title (its street and its number) is the one extracted.
C20_TitlePrecedence ==
    (ext.pc = "done" /\ HasDescription) =>
        /\ ext.full_text = ext.title \o <<" ">> \o ext.description
        /\ ( /\ extract_address_IMPROVED(ext.title) # <<>>
             /\ extract_address_IMPROVED(ext.description) # <<>> )
           => /\ ext.address_info # <<>>
              /\ ext.address_info[1].street_name
                    = extract_address_IMPROVED(ext.title)[1].street_name
              /\ ext.address_info[1].building_number
                    = extract_address_IMPROVED(ext.title)[1].building_number

\* C20 (amended): the extraction runs on title + " " + description (on the
\* title when there is no description), and the address of the title is the
\* one extracted when it is a validated match of a marker pattern (Al., ul.,
\* ulica) and no earlier pattern of the cascade has a validated match in the
\* whole text.
C20_TitleFirstInCascade ==
    ext.pc = "done" =>
        /\ ext.full_text = IF HasDescription
                           THEN ext.title \o <<" ">> \o ext.description
                           ELSE ext.title
        /\ \A p \in 1..3 :
              ( /\ scan_matches(p, ext.title, 1) # <<>>
                /\ \A j \in 1..(p - 1) : scan_matches(j, ext.full_text, 1) = <<>> )
              => /\ ext.address_info # <<>>
                 /\ ext.address_info[1].street_name
                       = scan_matches(p, ext.title, 1)[1].street_name
                 /\ ext.address_info[1].building_number
                       = scan_matches(p, ext.title, 1)[1].building_number

\* the title and the description have an address of the same pattern (ul.),
\* and the address of the title was extracted
C20_Witness ==
    /\ ext.pc = "done" /\ ext.parts # <<>>
    /\ ext.parts[1].marker = <<"u", "l", ".", " ">>
    /\ ext.parts[1].street = <<"N", "a", "r", "u", "t", "o", "w", "i", "c", "z", "a">>
    /\ HasDescription
    /\ scan_matches(2, ext.description, 1) # <<>>
    /\ ext.address_info # <<>>
    /\ ext.address_info[1].street_name = ext.parts[1].street
    /\ ext.address_info[1].street_name
          # scan_matches(2, ext.description, 1)[1].street_name

\* the matches of pattern i in the text that pass the filters, from left to right
ValidMatches(i, text) == SelectSeq(finditer(i, text, 1), Validated)

\* the patterns that have a match that passes the filters
PatternsWithValid(text) ==
    { i \in 1..NumPatterns : ValidMatches(i, text) # <<>> }

C5_NeverDeleted ==
    [][\A id \in DOMAIN db : id \in DOMAIN db']_vars

\* a pass was aborted; an offer that a pass deactivated and an offer that the
\* aborted pass saved are stored
C5_Witness ==
    /\ mon.pc = "done" /\ mon.out = <<[status |-> "ERROR"]>>
    /\ \E id \in DOMAIN db : ~db[id].is_active
    /\ \E id \in DOMAIN db : db[id].is_active /\ db[id].last_seen = mon.timestamp

\* the ids of the offers that save_offer has stored in the pass so far
Upserted(m) ==
    { m.all_offers[k].offer_id :
        k \in { j \in 1..Len(m.log) : m.log[j] \in {"new", "updated", "unchanged"} } }

\* run_monitoring has returned final_stats
Completed ==
    mon.pc = "done" /\ mon.out # <<>> /\ "total_found" \in DOMAIN mon.out[1]

\* C12: an offer whose processing fails (the page cannot be fetched, the
\* extractor or the geocoder raises) does not end the pass: no step of
\* _process_offer_CONTENT puts run_monitoring into its except clause, the
\* failed offer changes neither the table nor the active ids, the loop goes on
\* with the next offer, and mark_inactive_offers is called with a set that
\* has none of the failed offers.
C12_FailureSkips ==
    [][ /\ ( /\ mon.pc = "loop" /\ mon.i <= Len(mon.all_offers)
             /\ mon' # mon /\ mon'.out # <<[status |-> "KILLED"]>> )
           => mon'.pc \in {"loop", "geo"} /\ mon'.out = <<>>
        /\ ( /\ Len(mon'.log) = Len(mon.log) + 1
             /\ mon'.log[Len(mon'.log)] = "exception" )
           => /\ mon'.pc = "loop" /\ mon'.i = mon.i + 1
              /\ mon'.all_offers = mon.all_offers
              /\ mon'.active_ids = mon.active_ids
              /\ mon'.processed_offers = mon.processed_offers
              /\ mon'.stats = mon.stats
              /\ db' = db
        /\ (ret'.op = "mark_inactive_offers" /\ mon'.marks # mon.marks)
           => /\ Len(mon.log) = Len(mon.all_offers)
              /\ \A k \in 1..Len(mon.log) :
                    mon.log[k] = "exception"
                        => mon.all_offers[k].offer_id \notin ret'.active_ids
    ]_vars

\* the first offer of a pass failed, the second was stored, the pass returned
\* its statistics
C12_Witness ==
    /\ Completed /\ mon.marks = 1
    /\ Len(mon.log) = 2 /\ mon.log[1] = "exception" /\ mon.log[2] = "new"
    /\ mon.active_ids = {mon.all_offers[2].offer_id}

\* C13: mark_inactive_offers is called once in a pass that completes, when
\* every offer of the pass has been processed and every save_offer of the pass
\* has returned, with the timestamp of the pass and with exactly the ids that
\* save_offer stored in the pass; get_all_offers is read after that call.
C13_MarkOnce ==
    [][ /\ (ret'.op = "mark_inactive_offers" /\ mon'.marks # mon.marks)
           => /\ mon.marks = 0
              /\ Len(mon.log) = Len(mon.all_offers)
              /\ ret'.timestamp = mon.timestamp
              /\ ret'.active_ids = Upserted(mon)
              /\ \A id \in Upserted(mon) :
                    id \in DOMAIN db /\ db[id].last_seen = mon.timestamp
        /\ (mon'.pc = "report" \/ Completed')
           => /\ mon'.marks = 1
              /\ ret'.op = "mark_inactive_offers"
              /\ ret'.timestamp = mon'.timestamp
    ]_vars

\* a completed pass that stored one of its two offers and deactivated a row
C13_Witness ==
    /\ Completed /\ Len(mon.all_offers) = 2
    /\ Cardinality(Upserted(mon)) = 1
    /\ ret.op = "mark_inactive_offers" /\ ret.active_ids = Upserted(mon)
    /\ \E id \in DOMAIN db : ~db[id].is_active /\ db[id].last_seen = mon.timestamp

\* C14: a pass ends in an error only because the store could not be opened,
\* and then before any offer of the pass has been processed: a pass that has
\* stored an offer does not end in an error.
C14_OnlyOpenFatal ==
    ( /\ mon.pc = "done"
      /\ mon.out \in { <<[status |-> "ERROR"]>>, <<[status |-> "EXCEPTION"]>> } )
        => Upserted(mon) = {}

\* C15: when a pass stops inside the offer loop (the process is stopped, or an
\* exception of save_offer ends the pass), mark_inactive_offers is not called:
\* the stop changes no row, the pass has deactivated no row, and every offer
\* the pass stored before the stop is stored as active with the pass's last_seen.
C15_StopSkipsMark ==
    [][ ( /\ mon'.pc = "done" /\ mon.pc \in {"loop", "geo"}
          /\ mon.i <= Len(mon.all_offers) )
        => /\ db' = db
           /\ mon'.marks = 0
           /\ \A id \in DOMAIN db' :
                 ~( ~db'[id].is_active /\ db'[id].last_seen = mon'.timestamp )
           /\ \A id \in Upserted(mon') :
                 /\ id \in DOMAIN db' /\ db'[id].is_active
                 /\ db'[id].last_seen = mon'.timestamp
    ]_vars

\* a pass was stopped after it had stored one offer; a row it had not come to
\* is still active
C15_Witness ==
    /\ mon.pc = "done" /\ mon.out = <<[status |-> "KILLED"]>>
    /\ Upserted(mon) # {}
    /\ \E id \in DOMAIN db :
          /\ id \notin mon.active_ids /\ db[id].is_active
          /\ \E k \in (mon.i)..Len(mon.all_offers) : mon.all_offers[k].offer_id = id

\* the offers of the pass that had an address and coordinates and were stored
Resolved(m) == { k \in 1..Len(m.log) : m.log[k] \in {"new", "updated", "unchanged"} }

\* C16: the statistics of a completed pass have total_found = the number of
\* offers collected and with_addresses = the number of them that had an
\* address and coordinates in the box; when none had, every count of the pass
\* is zero and no offer is active.
C16_Counts ==
    Completed =>
        /\ Len(mon.log) = Len(mon.all_offers)
        /\ mon.out[1].total_found = Len(mon.all_offers)
        /\ mon.out[1].with_addresses = Cardinality(Resolved(mon))
        /\ Resolved(mon) = {} =>
              /\ mon.out[1].with_addresses = 0 /\ mon.out[1].new_offers = 0
              /\ mon.out[1].updated_offers = 0 /\ mon.out[1].active_offers = 0

\* two offers collected, one without an address, one resolved and stored
C16_Witness ==
    /\ Completed
    /\ mon.out[1].total_found = 2 /\ mon.out[1].with_addresses = 1
    /\ \E k \in 1..2 : mon.log[k] = "no_address"

\* C17: the statistics a pass returns, and the row it saves, carry the count
\* of the offers that save_offer classified unchanged in the pass.
C17_UnchangedReported ==
    Completed =>
        /\ "unchanged_offers" \in DOMAIN mon.out[1]
        /\ mon.out[1].unchanged_offers = mon.stats.unchanged
        /\ "unchanged_offers" \in DOMAIN mon.row[1]
        /\ mon.row[1].unchanged_offers = mon.stats.unchanged

C23_SeenInOrder ==
    [][\A id \in DOMAIN db' :
          /\ db'[id].first_seen <= db'[id].last_seen
          /\ days_active(db'[id]) >= 0
          /\ id \in DOMAIN db => db'[id].last_seen >= db[id].last_seen]_vars

\* an offer stored by the first pass was found unchanged by the second pass,
\* which moved its last_seen
C23_Witness ==
    /\ passes = 2
    /\ ret.op = "save_offer" /\ ret.result = "unchanged"
    /\ db[ret.offer.offer_id].first_seen = 1
    /\ db[ret.offer.offer_id].last_seen = 2
    /\ days_active(db[ret.offer.offer_id]) = 1

\* a counter of the returned statistics; one that they do not carry reads as 0
Reported(name) == IF name \in DOMAIN mon.out[1] THEN mon.out[1][name] ELSE 0

\* C25: the statistics of a completed pass (its offers have pairwise distinct
\* ids) satisfy new + updated + unchanged = with_addresses = active_offers,
\* with_addresses <= total_found, and active_offers + inactive_offers = the
\* number of stored offers.
C25_CountersAddUp ==
    Completed =>
        /\ Reported("new_offers") + Reported("updated_offers")
              + Reported("unchanged_offers") = Reported("with_addresses")
        /\ Reported("with_addresses") = Reported("active_offers")
        /\ Reported("with_addresses") <= Reported("total_found")
        /\ Reported("active_offers") + Reported("inactive_offers")
              = Cardinality(DOMAIN db)

\* C8: every point in the cache (in memory and in the file), every point
\* geocode returns and the coordinates of every stored offer lie in the box
\* 51.15 <= lat <= 51.35, 22.35 <= lon <= 22.75.
InBox(lat, lon) == lat \in 5115..5135 /\ lon \in 2235..2275

C8_InBox ==
    /\ \A k \in DOMAIN cache : InBox(cache[k].lat, cache[k].lon)
    /\ \A k \in DOMAIN disk.data : InBox(disk.data[k].lat, disk.data[k].lon)
    /\ (geo.pc = "ret" /\ geo.ret # <<>>) => InBox(geo.ret[1].lat, geo.ret[1].lon)
    /\ \A id \in DOMAIN db : InBox(db[id].latitude, db[id].longitude)

\* an offer was inserted with the point the geocoder has cached for its address
C8_Witness ==
    /\ ret.op = "save_offer" /\ ret.result = "new"
    /\ \E k \in DOMAIN disk.data :
          /\ disk.data[k].lat = db[ret.offer.offer_id].latitude
          /\ disk.data[k].lon = db[ret.offer.offer_id].longitude
          /\ disk.data[k].lat = LUBLIN_BOUNDS.max_lat
          /\ disk.data[k].lon = LUBLIN_BOUNDS.max_lon

====
